---- MODULE Spec2Model ----
(***************************************************************************)
(* Model of the AI Reception Agent: agent.py (transcription and call       *)
(* analysis), database.py (the calls store and phone masking), models.py   *)
(* (the Call row) and streamlit_app.py (the session workflow).             *)
(*                                                                         *)
(* Strings are sequences of one-character strings, so that capitalize(),   *)
(* slicing and len() are computed character by character.  An optional     *)
(* value (Python None, or a key missing from st.session_state) is a set    *)
(* with at most one element: {} is None/missing, {v} is the value v.       *)
(***************************************************************************)
EXTENDS Integers, Sequences, FiniteSets, TLC

\* ------------------------------------------------------------------ bounds
MaxReplyLen == 4   \* tokens in one upstream generation reply
MaxPhoneLen == 6   \* characters in a phone string given to mask_phone
MaxCalls == 2      \* rows in the calls table
MaxClock == 1      \* distinct readings of datetime.utcnow()

\* ----------------------------------------------------------------- strings
S_Low == <<"L", "o", "w">>
S_Medium == <<"M", "e", "d", "i", "u", "m">>
S_High == <<"H", "i", "g", "h">>
S_high == <<"h", "i", "g", "h">>
S_LOW == <<"L", "O", "W">>
S_Urgent == <<"U", "r", "g", "e", "n", "t">>
S_Unknown == <<"U", "n", "k", "n", "o", "w", "n">>
S_NA == <<"N", "/", "A">>
S_Empty == <<>>
S_Hi == <<"h", "i">>
S_Al == <<"A", "l">>
S_Sum == <<"S", "u", "m">>

LowerCase == <<"a", "b", "c", "d", "e", "f", "g", "h", "i", "j", "k", "l", "m",
               "n", "o", "p", "q", "r", "s", "t", "u", "v", "w", "x", "y", "z">>
UpperCase == <<"A", "B", "C", "D", "E", "F", "G", "H", "I", "J", "K", "L", "M",
               "N", "O", "P", "Q", "R", "S", "T", "U", "V", "W", "X", "Y", "Z">>

\* str.upper() and str.lower() on one character
Upper(c) ==
    IF \E i \in 1..26 : LowerCase[i] = c
    THEN UpperCase[CHOOSE i \in 1..26 : LowerCase[i] = c]
    ELSE c
Lower(c) ==
    IF \E i \in 1..26 : UpperCase[i] = c
    THEN LowerCase[CHOOSE i \in 1..26 : UpperCase[i] = c]
    ELSE c

\* str.capitalize(): first character upper-cased, the rest lower-cased
Capitalize(s) ==
    [i \in 1..Len(s) |-> IF i = 1 THEN Upper(s[i]) ELSE Lower(s[i])]

\* The first n characters of s
Take(s, n) == SubSeq(s, 1, IF Len(s) < n THEN Len(s) ELSE n)

\* Python "x or None" on a string: the empty string is falsy
OrNone(s) == IF s = S_Empty THEN {} ELSE {s}

\* ------------------------------------------------------ JSON reply tokens
\* A JSON value: a string or null.
JStr(s) == [ty |-> "str", s |-> s]
JNull == [ty |-> "null", s |-> S_Empty]

\* The reply text of the generation call is a sequence of tokens: "{", "}",
\* a run of non-JSON text (prose, a code fence), a complete non-object JSON
\* value (an array or a scalar), or one "key": value member.
TokLBrace == [t |-> "lbrace", k |-> "", v |-> JNull]
TokRBrace == [t |-> "rbrace", k |-> "", v |-> JNull]
TokJunk == [t |-> "junk", k |-> "", v |-> JNull]
TokArr == [t |-> "arr", k |-> "", v |-> JNull]
TokKV(key, val) == [t |-> "kv", k |-> key, v |-> val]

ReplyPriorities == {JStr(S_High), JStr(S_high), JStr(S_LOW), JStr(S_Urgent), JNull}
ReplyTokens ==
    {TokLBrace, TokRBrace, TokJunk, TokArr}
    \cup {TokKV("priority", p) : p \in ReplyPriorities}
    \cup {TokKV("summary", JStr(S_Empty))}

ReplyTexts == UNION {[1..n -> ReplyTokens] : n \in 0..MaxReplyLen}

\* str.find('{') and str.rfind('}') as 0-based indexes, -1 when not found
Find(text, tok) ==
    IF \E i \in 1..Len(text) : text[i] = tok
    THEN (CHOOSE i \in 1..Len(text) :
             text[i] = tok /\ \A j \in 1..(i - 1) : text[j] # tok) - 1
    ELSE -1
RFind(text, tok) ==
    IF \E i \in 1..Len(text) : text[i] = tok
    THEN (CHOOSE i \in 1..Len(text) :
             text[i] = tok /\ \A j \in (i + 1)..Len(text) : text[j] # tok) - 1
    ELSE -1

\* agent.py:130-133, the brace extraction
BraceExtract(text) ==
    LET start_idx == Find(text, TokLBrace)
        end_idx == RFind(text, TokRBrace) + 1
    IN  IF start_idx >= 0 /\ end_idx > start_idx
        THEN SubSeq(text, start_idx + 1, end_idx)
        ELSE text

\* json.loads: the text is a JSON object
IsJsonObject(text) ==
    /\ Len(text) >= 2
    /\ text[1] = TokLBrace
    /\ text[Len(text)] = TokRBrace
    /\ \A i \in 2..(Len(text) - 1) : text[i].t = "kv"
\* json.loads: the text is valid JSON that is not an object
IsJsonNonObject(text) == text = <<TokArr>>

\* json.loads on an object: a dict, where a repeated key keeps its last value
JsonLoads(text) ==
    LET keys == {text[i].k : i \in 2..(Len(text) - 1)}
        last(key) == CHOOSE i \in 2..(Len(text) - 1) :
                        /\ text[i].k = key
                        /\ \A j \in (i + 1)..(Len(text) - 1) : text[j].k # key
    IN  [key \in keys |-> text[last(key)].v]

\* ------------------------------------------------------------ analyze_call
required_fields == {"caller_name", "phone", "department", "priority", "summary", "response"}
CanonicalPriorities == {S_Low, S_Medium, S_High}

\* agent.py:138-141
CompleteFields(result) ==
    [f \in (DOMAIN result) \cup required_fields |->
        IF f \in DOMAIN result THEN result[f] ELSE JStr(S_Unknown)]

\* A validation that accepts any capitalization and leaves the value as it came.
ValidatePriority_AnyCase(result) ==
    IF Capitalize(result["priority"].s) \notin CanonicalPriorities
    THEN [result EXCEPT !["priority"] = JStr(S_Medium)]
    ELSE result

\* agent.py:143-145
ValidatePriority(result) ==
    IF result["priority"] \notin {JStr(p) : p \in CanonicalPriorities}
    THEN [result EXCEPT !["priority"] = JStr(S_Medium)]
    ELSE result

Returned(value) == [raised |-> FALSE, msg |-> <<>>, value |-> {value}]
Raised(msg) == [raised |-> TRUE, msg |-> msg, value |-> {}]

\* The outcome of the upstream generation call: an error, or a reply text.
GenerationError == [ok |-> FALSE, text |-> <<>>]
GenerationReply(text) == [ok |-> TRUE, text |-> text]
GenerationOutcomes == {GenerationError} \cup {GenerationReply(x) : x \in ReplyTexts}

\* A parse that swallows the decoding error and returns a record of defaults.
ParseReply_Swallow(response_text) ==
    LET cleaned == BraceExtract(response_text)
    IN  IF IsJsonObject(cleaned)
        THEN Returned(ValidatePriority(CompleteFields(JsonLoads(cleaned))))
        ELSE Returned(ValidatePriority(CompleteFields(<<>>)))

\* agent.py:127-150, from the reply text to the record or the exception
ParseReply(response_text) ==
    LET cleaned == BraceExtract(response_text)
    IN  IF IsJsonObject(cleaned)
        THEN Returned(ValidatePriority(CompleteFields(JsonLoads(cleaned))))
        ELSE IF IsJsonNonObject(cleaned)
        THEN Raised(<<"Call analysis failed", "TypeError">>)
        ELSE Raised(<<"Call analysis failed", "Failed to parse model response as JSON">>)

\* agent.py:70-153
analyze_call(use_groq, transcript, upstream) ==
    IF ~use_groq
    THEN Raised(<<"Groq client not initialized">>)
    ELSE IF ~upstream.ok
    THEN Raised(<<"Call analysis failed", "upstream error">>)
    ELSE ParseReply(upstream.text)

Transcripts == {S_Empty, S_Hi}

\* ---------------------------------------------------------------- database
\* An id generator that hands out the latest id again.
NextId_Reuse(rows) ==
    IF rows = <<>> THEN 1 ELSE rows[Len(rows)].id

\* models.py:13, Integer primary key: SQLite gives the row max(id) + 1
NextId(rows) ==
    IF rows = <<>> THEN 1
    ELSE 1 + CHOOSE m \in {rows[i].id : i \in 1..Len(rows)} :
                 \A i \in 1..Len(rows) : rows[i].id <= m

\* models.py:9-22, the row save_call builds from its arguments
Call(id, timestamp, a) ==
    [id |-> id, timestamp |-> timestamp,
     caller_name |-> a.caller_name, phone |-> a.phone,
     department |-> a.department, priority |-> a.priority,
     summary |-> a.summary, transcript |-> a.transcript,
     response |-> a.response]

\* What the database does during save_call: the commit succeeds and so does
\* the refresh, the commit fails (nothing is written), or the commit succeeds
\* and reading the row back fails.
DbOutcomes == {"ok", "commit fails", "refresh fails"}

\* An insert that leaves the row behind when its commit fails.
save_call_PartialWrite(rows, now, a, db) ==
    LET db_call == Call(NextId(rows), now, a)
    IN  IF db = "ok"
        THEN [rows |-> Append(rows, db_call), raised |-> FALSE, call |-> {db_call}]
        ELSE [rows |-> Append(rows, db_call), raised |-> TRUE, call |-> {}]

\* database.py:31-69
save_call(rows, now, a, db) ==
    LET db_call == Call(NextId(rows), now, a)
    IN  IF db = "commit fails"
        THEN [rows |-> rows, raised |-> TRUE, call |-> {}]
        ELSE IF db = "refresh fails"
        THEN [rows |-> Append(rows, db_call), raised |-> TRUE, call |-> {}]
        ELSE [rows |-> Append(rows, db_call), raised |-> FALSE, call |-> {db_call}]

IndexOrders(n) == {f \in [1..n -> 1..n] : \A i, j \in 1..n : f[i] = f[j] => i = j}

\* ORDER BY timestamp DESC: every order of the rows in which timestamps do
\* not increase; SQL leaves the order of rows with equal timestamps open.
OrderByTimestampDesc(rows) ==
    {[i \in 1..Len(rows) |-> rows[f[i]]] : f \in
        {g \in IndexOrders(Len(rows)) :
            \A i, j \in 1..Len(rows) :
                i < j => rows[g[i]].timestamp >= rows[g[j]].timestamp}}

\* OFFSET skip LIMIT limit
OffsetLimit(rows, skip, limit) ==
    LET first == skip + 1
        last == IF skip + limit < Len(rows) THEN skip + limit ELSE Len(rows)
    IN  SubSeq(rows, first, last)

\* database.py:71-83, the results the query may return
get_all_calls(rows, skip, limit) ==
    {OffsetLimit(sorted, skip, limit) : sorted \in OrderByTimestampDesc(rows)}

\* database.py:85-96
get_call_by_id(rows, call_id) ==
    IF \E i \in 1..Len(rows) : rows[i].id = call_id
    THEN {rows[CHOOSE i \in 1..Len(rows) :
                 /\ rows[i].id = call_id
                 /\ \A j \in 1..(i - 1) : rows[j].id # call_id]}
    ELSE {}

\* A masking that pads with one star per character of the whole phone.
mask_phone_TooManyStars(phone) ==
    IF phone = {} \/ phone = {S_Empty}
    THEN S_NA
    ELSE LET p == CHOOSE x \in phone : TRUE
         IN  IF Len(p) <= 4
             THEN p
             ELSE SubSeq(p, 1, 4) \o [i \in 1..Len(p) |-> "*"]

\* database.py:98-112
mask_phone(phone) ==
    IF phone = {} \/ phone = {S_Empty}
    THEN S_NA
    ELSE LET p == CHOOSE x \in phone : TRUE
         IN  IF Len(p) <= 4
             THEN p
             ELSE SubSeq(p, 1, 4) \o [i \in 1..(Len(p) - 4) |-> "*"]

\* ------------------------------------------------------------------- state
VARIABLES
    USE_GROQ,          \* agent.py:14-22, the Groq client was initialized
    WHISPER_MODEL,     \* agent.py:25-31, the Whisper model was loaded
    ss_authenticated,  \* st.session_state.authenticated
    ss_transcript,     \* st.session_state.transcript ({} when the key is missing)
    ss_analysis,       \* st.session_state.analysis ({} when the key is missing)
    analysis_from,     \* the transcript analyze_call was given for ss_analysis
    uploaded,          \* the file uploader holds a file
    pc,                \* position of the running Analyze Call handler
    upstream_calls,    \* upstream calls issued by the latest Analyze Call
    shown,             \* the message the latest action rendered
    calls,             \* the rows of the calls table, in insertion order
    clock,             \* the reading datetime.utcnow() returns
    args,              \* arguments of the latest database call
    returned,          \* the row the latest save_call returned
    listing,           \* the rows the latest get_all_calls returned
    fetched,           \* the result of the latest get_call_by_id
    x_transcript,      \* analyze_call alone: its transcript argument
    x_upstream,        \* analyze_call alone: what the generation call does
    x_result,          \* analyze_call alone: its outcome
    m_phone,           \* mask_phone alone: its argument
    m_out              \* mask_phone alone: its result

configVars == <<USE_GROQ, WHISPER_MODEL>>
sessionVars == <<ss_authenticated, ss_transcript, ss_analysis, analysis_from, uploaded, pc,
                 upstream_calls, shown>>
storeVars == <<calls, clock>>
dbCallVars == <<args, returned, listing, fetched>>
extractVars == <<x_transcript, x_upstream, x_result>>
maskVars == <<m_phone, m_out>>
vars == <<configVars, sessionVars, storeVars, dbCallVars, extractVars, maskVars>>

NoMessage == <<>>

\* The session before the first script run, and an empty table.
SessionInit ==
    /\ ss_authenticated = FALSE
    /\ ss_transcript = {}
    /\ ss_analysis = {}
    /\ analysis_from = {}
    /\ uploaded = FALSE
    /\ pc = "idle"
    /\ upstream_calls = <<>>
    /\ shown = NoMessage
StoreInit ==
    /\ calls = <<>>
    /\ clock = 0
DbCallInit ==
    /\ args = {}
    /\ returned = {}
    /\ listing = <<>>
    /\ fetched = {}
ExtractIdle ==
    /\ x_transcript = S_Empty
    /\ x_upstream = GenerationError
    /\ x_result = {}
MaskIdle ==
    /\ m_phone = {}
    /\ m_out = {}

\* ------------------------------------------- analyze_call on its own inputs
ExtractInit ==
    /\ USE_GROQ \in BOOLEAN
    /\ WHISPER_MODEL = TRUE
    /\ SessionInit /\ StoreInit /\ DbCallInit /\ MaskIdle
    /\ x_transcript \in Transcripts
    /\ x_upstream \in GenerationOutcomes
    /\ x_result = {}

AnalyzeCall ==
    /\ x_result = {}
    /\ x_result' = {analyze_call(USE_GROQ, x_transcript, x_upstream)}
    /\ UNCHANGED <<configVars, sessionVars, storeVars, dbCallVars, maskVars,
                   x_transcript, x_upstream>>

ExtractNext == AnalyzeCall
SpecExtract == ExtractInit /\ [][ExtractNext]_vars

\* The generation call returned a reply text (no configuration or upstream error).
XReplied == USE_GROQ /\ x_upstream.ok
XCleaned == BraceExtract(x_upstream.text)
XParsed == JsonLoads(XCleaned)

\* The synthetic record of the specification's parse fallback.
FallbackRecord(transcript, cleaned) ==
    [f \in required_fields |->
        CASE f = "priority" -> JStr(S_Medium)
          [] f = "summary" -> JStr(Take(transcript, 500))
          [] f = "response" -> [ty |-> "text", s |-> cleaned]
          [] OTHER -> JStr(S_Empty)]

IsPriorityWord(val) == val.ty = "str" /\ Capitalize(val.s) \in CanonicalPriorities

\* C2 as stated: a parsed priority that is low/medium/high in any
\* capitalization comes back in canonical form ("high" -> "High"), and only
\* a value that is none of the three words comes back as "Medium".
C2_CaseInsensitivePriority ==
    \A r \in x_result :
        (XReplied /\ IsJsonObject(XCleaned) /\ "priority" \in DOMAIN XParsed) =>
            /\ ~r.raised
            /\ \A v \in r.value :
                  v["priority"] =
                      IF IsPriorityWord(XParsed["priority"])
                      THEN JStr(Capitalize(XParsed["priority"].s))
                      ELSE JStr(S_Medium)

\* C3: whenever analyze_call returns a record, in particular for every reply
\* that parses as a JSON object with any subset of the six keys missing, the
\* record has all six keys, its priority is exactly Low, Medium or High, and
\* no error is raised for the missing keys.
C3_AllKeysCanonicalPriority ==
    \A r \in x_result :
        /\ (XReplied /\ IsJsonObject(XCleaned)) => (~r.raised /\ r.value # {})
        /\ \A v \in r.value :
              /\ required_fields \subseteq DOMAIN v
              /\ v["priority"].ty = "str"
              /\ v["priority"].s \in {S_Low, S_Medium, S_High}

\* analyze_call has returned a record for an object that lacked some keys.
C3_Witness ==
    /\ XReplied
    /\ IsJsonObject(XCleaned)
    /\ ~(required_fields \subseteq DOMAIN XParsed)
    /\ "priority" \in DOMAIN XParsed
    /\ \E r \in x_result : ~r.raised /\ r.value # {}


\* ------------------------------------------------------ the session workflow
\* What the Whisper model does with the uploaded audio: it fails, or it
\* returns a text (the empty text for a recording without speech).
TranscriptionError == [ok |-> FALSE, text |-> S_Empty]
TranscriptionText(text) == [ok |-> TRUE, text |-> text]
TranscriptionOutcomes == {TranscriptionError} \cup {TranscriptionText(x) : x \in Transcripts}

\* agent.py:33-68
transcribe_audio(whisper_model, upstream) ==
    IF ~whisper_model
    THEN Raised(<<"Whisper model not loaded">>)
    ELSE IF ~upstream.ok
    THEN Raised(<<"Transcription failed", "upstream error">>)
    ELSE Returned(upstream.text)

\* The outcomes analyze_call can have, per configuration and transcript.
AnalysisOutcomes ==
    [g \in BOOLEAN, x \in Transcripts |->
        {analyze_call(g, x, u) : u \in GenerationOutcomes}]

ErrorAnalyzing(msg) == <<"Error analyzing call">> \o msg
ErrorSaving(msg) == <<"Error saving call">> \o msg
AnalysisComplete == <<"Call analysis complete!">>
EnterSummary == <<"Please enter a summary">>
CallSaved == <<"Call saved successfully!">>
IncorrectPassword == <<"Incorrect password. Please try again.">>

Init ==
    /\ USE_GROQ \in BOOLEAN
    /\ WHISPER_MODEL \in BOOLEAN
    /\ SessionInit /\ StoreInit /\ DbCallInit /\ ExtractIdle /\ MaskIdle

idleVars == <<configVars, dbCallVars, extractVars, maskVars>>

\* streamlit_app.py:54-81
Login ==
    /\ ~ss_authenticated
    /\ \E correct \in BOOLEAN :
          IF correct
          THEN ss_authenticated' = TRUE /\ shown' = NoMessage
          ELSE ss_authenticated' = FALSE /\ shown' = IncorrectPassword
    /\ UNCHANGED <<ss_transcript, ss_analysis, analysis_from, uploaded, pc, upstream_calls,
                   storeVars, idleVars>>

\* streamlit_app.py:293-295
Logout ==
    /\ ss_authenticated
    /\ pc = "idle"
    /\ ss_authenticated' = FALSE
    /\ ss_transcript' = {}
    /\ ss_analysis' = {}
    /\ analysis_from' = {}
    /\ uploaded' = FALSE
    /\ shown' = NoMessage
    /\ UNCHANGED <<pc, upstream_calls, storeVars, idleVars>>

\* streamlit_app.py:88-96, a file is put into the uploader or taken out of it
Upload ==
    /\ ss_authenticated
    /\ pc = "idle"
    /\ uploaded' = ~uploaded
    /\ shown' = NoMessage
    /\ UNCHANGED <<ss_authenticated, ss_transcript, ss_analysis, analysis_from, pc,
                   upstream_calls, storeVars, idleVars>>

\* streamlit_app.py:98-102 with agent.py:46-57: the button is pressed and
\* transcribe_audio either raises at once or calls the Whisper model
ClickAnalyze ==
    /\ ss_authenticated
    /\ uploaded
    /\ pc = "idle"
    /\ IF ~WHISPER_MODEL
       THEN /\ upstream_calls' = <<>>
            /\ shown' = ErrorAnalyzing(transcribe_audio(WHISPER_MODEL, TranscriptionError).msg)
            /\ pc' = "idle"
       ELSE /\ upstream_calls' = <<"transcribe">>
            /\ shown' = NoMessage
            /\ pc' = "transcribing"
    /\ UNCHANGED <<ss_authenticated, ss_transcript, ss_analysis, analysis_from, uploaded,
                   storeVars, idleVars>>

\* A handler that shows the transcription error and goes on to the analysis.
TranscribeReturn_GoesOn ==
    /\ pc = "transcribing"
    /\ \E upstream \in TranscriptionOutcomes :
          LET t == transcribe_audio(WHISPER_MODEL, upstream)
          IN  /\ ss_transcript' = {upstream.text}
              /\ shown' = IF t.raised THEN ErrorAnalyzing(t.msg) ELSE NoMessage
              /\ pc' = "generating"
              /\ upstream_calls' = Append(upstream_calls, "generate")
    /\ UNCHANGED <<ss_authenticated, ss_analysis, analysis_from, uploaded, storeVars,
                   idleVars>>

\* streamlit_app.py:102-107,112-114 with agent.py:57-68,89-107: the Whisper
\* call returns; on a transcript the handler stores it and enters analyze_call,
\* which raises at once or calls the generation service
TranscribeReturn ==
    /\ pc = "transcribing"
    /\ \E upstream \in TranscriptionOutcomes :
          LET t == transcribe_audio(WHISPER_MODEL, upstream)
          IN  IF t.raised
              THEN /\ shown' = ErrorAnalyzing(t.msg)
                   /\ pc' = "idle"
                   /\ UNCHANGED <<ss_transcript, upstream_calls>>
              ELSE /\ ss_transcript' = t.value
                   /\ IF ~USE_GROQ
                      THEN /\ shown' = ErrorAnalyzing(
                                  analyze_call(USE_GROQ, upstream.text, GenerationError).msg)
                           /\ pc' = "idle"
                           /\ UNCHANGED upstream_calls
                      ELSE /\ shown' = NoMessage
                           /\ pc' = "generating"
                           /\ upstream_calls' = Append(upstream_calls, "generate")
    /\ UNCHANGED <<ss_authenticated, ss_analysis, analysis_from, uploaded, storeVars,
                   idleVars>>

\* streamlit_app.py:107-114 with agent.py:107-153: the generation call returns
GenerateReturn ==
    /\ pc = "generating"
    /\ \E x \in ss_transcript :
       \E a \in AnalysisOutcomes[USE_GROQ, x] :
          IF a.raised
          THEN /\ shown' = ErrorAnalyzing(a.msg)
               /\ UNCHANGED <<ss_analysis, analysis_from>>
          ELSE /\ shown' = AnalysisComplete
               /\ ss_analysis' = a.value
               /\ analysis_from' = {x}
    /\ pc' = "idle"
    /\ UNCHANGED <<ss_authenticated, ss_transcript, uploaded, upstream_calls,
                   storeVars, idleVars>>

\* streamlit_app.py:137-166, the value a text widget starts with
FormDefault(analysis, key) ==
    IF key \in DOMAIN analysis /\ analysis[key].ty = "str"
    THEN analysis[key].s
    ELSE S_Empty

\* An option list with a miscapitalized entry.
PriorityOptions_Typo == {S_Low, S_Medium, S_high}

\* streamlit_app.py:148-154, the options of the priority selectbox
PriorityOptions == {S_Low, S_Medium, S_High}

\* streamlit_app.py:151-153: list.index raises unless the capitalized
\* priority of the analysis is an option, and then no form is drawn
FormRenders(analysis) ==
    LET p == IF "priority" \in DOMAIN analysis
             THEN analysis["priority"] ELSE JStr(S_Medium)
    IN  p.ty = "str" /\ Capitalize(p.s) \in PriorityOptions

\* streamlit_app.py:176-185, the arguments the form passes to save_call
SaveArgs(session_transcript, analysis, priority, summary) ==
    [transcript |-> session_transcript,
     summary |-> summary,
     caller_name |-> OrNone(FormDefault(analysis, "caller_name")),
     phone |-> OrNone(FormDefault(analysis, "phone")),
     department |-> OrNone(FormDefault(analysis, "department")),
     priority |-> priority,
     response |-> OrNone(FormDefault(analysis, "response"))]

\* The summaries the user may leave in the form: the seeded one, none, a new one.
SummaryInputs(analysis) == {FormDefault(analysis, "summary"), S_Empty, S_Sum}

\* streamlit_app.py:128-199, Save Call is pressed on the form
SaveCall ==
    /\ ss_authenticated
    /\ uploaded
    /\ pc = "idle"
    /\ Len(calls) < MaxCalls
    /\ \E analysis \in ss_analysis :
          /\ FormRenders(analysis)
          /\ \E priority \in PriorityOptions, summary \in SummaryInputs(analysis),
                db \in DbOutcomes :
                IF summary = S_Empty
                THEN /\ shown' = EnterSummary
                     /\ UNCHANGED <<ss_transcript, ss_analysis, analysis_from, calls>>
                ELSE IF ss_transcript = {}
                THEN /\ shown' = ErrorSaving(<<"AttributeError">>)
                     /\ UNCHANGED <<ss_transcript, ss_analysis, analysis_from, calls>>
                ELSE LET x == CHOOSE y \in ss_transcript : TRUE
                         saved == save_call(calls, clock,
                                            SaveArgs(x, analysis, priority, summary), db)
                     IN  /\ calls' = saved.rows
                         /\ IF saved.raised
                            THEN /\ shown' = ErrorSaving(<<db>>)
                                 /\ UNCHANGED <<ss_transcript, ss_analysis, analysis_from>>
                            ELSE /\ shown' = CallSaved
                                 /\ ss_analysis' = {}
                                 /\ analysis_from' = {}
                                 /\ ss_transcript' = {}
    /\ UNCHANGED <<ss_authenticated, uploaded, pc, upstream_calls, clock, idleVars>>

\* models.py:14, datetime.utcnow moves on between two inserts, or does not
Tick ==
    /\ clock < MaxClock
    /\ clock' = clock + 1
    /\ UNCHANGED <<sessionVars, calls, idleVars>>

Next ==
    \/ Login
    \/ Logout
    \/ Upload
    \/ ClickAnalyze
    \/ TranscribeReturn
    \/ GenerateReturn
    \/ SaveCall
    \/ Tick

Spec == Init /\ [][Next]_vars


Rows == {calls[i] : i \in 1..Len(calls)}

\* C4: after any sequence of login, upload, Analyze, form edit and Save Call
\* actions every row of the calls table has priority exactly Low, Medium or
\* High.
C4_StoredPriorityCanonical ==
    \A r \in Rows : r.priority \in {S_Low, S_Medium, S_High}

\* A call was saved while the table already held one, with priority High.
C4_Witness ==
    /\ Len(calls) = 2
    /\ calls[2].priority = S_High
    /\ shown = CallSaved

\* C5 as stated: every row that reaches the store has a non-empty summary
\* and a non-empty transcript.
C5_SummaryAndTranscriptNonEmpty ==
    \A r \in Rows : r.summary # S_Empty /\ r.transcript # S_Empty

\* C8: in every Analyze Call the upstream calls are a prefix of
\* <<transcribe, generate>>, the generation call is issued only when the
\* transcription call has returned a transcript, an error shown ends the
\* action without a further call, and the action inserts no row.
C8_UpstreamCallOrder ==
    /\ [](/\ upstream_calls \in {<<>>, <<"transcribe">>, <<"transcribe", "generate">>}
          /\ pc = "transcribing" => upstream_calls = <<"transcribe">>
          /\ pc = "generating" =>
                (upstream_calls = <<"transcribe", "generate">> /\ ss_transcript # {}))
    /\ [][/\ (pc # "idle" \/ pc' # "idle") => calls' = calls
          /\ (upstream_calls' # upstream_calls /\ pc # "idle") =>
                /\ pc = "transcribing"
                /\ upstream_calls' = <<"transcribe", "generate">>
                /\ ss_transcript' # {}
                /\ shown' = NoMessage
          /\ (pc # "idle" /\ shown' # NoMessage /\ shown' # AnalysisComplete) =>
                /\ shown'[1] = "Error analyzing call"
                /\ pc' = "idle"
                /\ upstream_calls' = upstream_calls
                /\ ss_analysis' = ss_analysis]_vars

\* An Analyze Call ended on a failure of the generation call, after a save.
C8_Witness ==
    /\ shown = ErrorAnalyzing(<<"Call analysis failed", "upstream error">>)
    /\ upstream_calls = <<"transcribe", "generate">>
    /\ pc = "idle"
    /\ Len(calls) >= 1

IsSaveMessage(m) ==
    \/ m \in {EnterSummary, CallSaved}
    \/ Len(m) >= 1 /\ m[1] = "Error saving call"

SaveCallSucceeds == SaveCall /\ shown' = CallSaved

\* C9: when the store write fails during Save Call the session transcript
\* and analysis stay as they were and no row is added, so that Save Call can
\* succeed next without another Analyze; a Save Call clears the session
\* transcript and analysis only when the save succeeded.
C9_FailedSaveKeepsSession ==
    /\ [](shown = ErrorSaving(<<"commit fails">>) => ENABLED SaveCallSucceeds)
    /\ [][/\ shown' = ErrorSaving(<<"commit fails">>) =>
                /\ calls' = calls
                /\ ss_transcript' = ss_transcript /\ ss_transcript' # {}
                /\ ss_analysis' = ss_analysis /\ ss_analysis' # {}
          /\ IsSaveMessage(shown') =>
                (((ss_analysis' # ss_analysis \/ ss_transcript' # ss_transcript)
                    => /\ shown' = CallSaved
                       /\ Len(calls') = Len(calls) + 1
                       /\ ss_analysis' = {} /\ ss_transcript' = {}))]_vars

\* A Save Call failed on the commit with the form data still in the session.
C9_Witness ==
    /\ shown = ErrorSaving(<<"commit fails">>)
    /\ ss_analysis # {}
    /\ ss_transcript # {}

\* C11 as stated: whenever the session, between two handler runs, holds
\* both a transcript and an analysis, the analysis was extracted from that
\* transcript; also after an Analyze Call whose transcription succeeded and
\* whose generation failed while an earlier unsaved analysis was in the
\* session.
C11_AnalysisMatchesTranscript ==
    (pc = "idle" /\ ss_transcript # {} /\ ss_analysis # {}) =>
        analysis_from = ss_transcript

\* -------------------------------------------------- the database on its own
ArgsPlain ==
    [transcript |-> S_Hi, summary |-> S_Sum, caller_name |-> {}, phone |-> {},
     department |-> {}, priority |-> S_Low, response |-> {}]
ArgsFull ==
    [transcript |-> S_Empty, summary |-> S_Unknown, caller_name |-> {S_Al},
     phone |-> {<<"1", "2", "1", "2", "1">>}, department |-> {S_Unknown},
     priority |-> S_High, response |-> {S_Hi}]
StoreArgs == {ArgsPlain, ArgsFull}

StoreInit0 ==
    /\ USE_GROQ = TRUE
    /\ WHISPER_MODEL = TRUE
    /\ SessionInit /\ StoreInit /\ DbCallInit /\ ExtractIdle /\ MaskIdle

\* database.py:31-69
DbSaveCall ==
    /\ Len(calls) < MaxCalls
    /\ \E a \in StoreArgs, db \in DbOutcomes :
          LET saved == save_call(calls, clock, a, db)
          IN  /\ calls' = saved.rows
              /\ args' = {a}
              /\ returned' = saved.call
    /\ UNCHANGED <<configVars, sessionVars, clock, listing, fetched,
                   extractVars, maskVars>>

\* database.py:71-83
DbGetAllCalls ==
    /\ \E skip \in 0..(MaxCalls + 1), limit \in 0..(MaxCalls + 1) :
          listing' \in get_all_calls(calls, skip, limit)
    /\ UNCHANGED <<configVars, sessionVars, storeVars, args, returned, fetched,
                   extractVars, maskVars>>

\* database.py:85-96
DbGetCallById ==
    /\ \E call_id \in 1..(MaxCalls + 1) :
          fetched' = get_call_by_id(calls, call_id)
    /\ UNCHANGED <<configVars, sessionVars, storeVars, args, returned, listing,
                   extractVars, maskVars>>

StoreNext ==
    \/ DbSaveCall
    \/ DbGetAllCalls
    \/ DbGetCallById
    \/ Tick

SpecStore == StoreInit0 /\ [][StoreNext]_vars

\* C6 as stated: get_all_calls returns rows by timestamp descending, and two
\* rows with equal timestamps in descending id order.
C6_NewestFirstIdTieBreak ==
    \A i, j \in 1..Len(listing) :
        i < j =>
            \/ listing[i].timestamp > listing[j].timestamp
            \/ /\ listing[i].timestamp = listing[j].timestamp
               /\ listing[i].id > listing[j].id

SameFields(row, a) ==
    /\ row.caller_name = a.caller_name
    /\ row.phone = a.phone
    /\ row.department = a.department
    /\ row.priority = a.priority
    /\ row.summary = a.summary
    /\ row.transcript = a.transcript
    /\ row.response = a.response

\* C7: the row save_call returned is what get_call_by_id gives for its id,
\* with the fields that were inserted; after any later save_call,
\* get_all_calls or get_call_by_id every id still gives the same row; and no
\* id belongs to two rows.
C7_AppendOnlyRoundTrip ==
    /\ [](/\ \A i, j \in 1..Len(calls) : calls[i].id = calls[j].id => i = j
          /\ \A r \in returned :
                /\ get_call_by_id(calls, r.id) = {r}
                /\ \A a \in args : SameFields(r, a)
          /\ \A f \in fetched : get_call_by_id(calls, f.id) = {f})
    /\ [][\A r \in Rows :
              /\ get_call_by_id(calls, r.id) = {r}
              /\ get_call_by_id(calls', r.id) = {r}]_vars

\* The first row was read back by its id after a second row was saved.
C7_Witness ==
    /\ Len(calls) = 2
    /\ \E r \in returned : r.id = 2
    /\ \E f \in fetched : f.id = 1 /\ f = calls[1]

\* ------------------------------------------------------ mask_phone on its own
PhoneChars == {"1", "2"}
PhoneStrings == UNION {[1..n -> PhoneChars] : n \in 0..MaxPhoneLen}
PhoneInputs == {{}} \cup {{p} : p \in PhoneStrings}

\* The table holds one row with the phone that is going to be displayed.
MaskInit ==
    /\ USE_GROQ = TRUE
    /\ WHISPER_MODEL = TRUE
    /\ SessionInit /\ DbCallInit /\ ExtractIdle
    /\ m_phone \in PhoneInputs
    /\ m_out = {}
    /\ clock = 0
    /\ calls = <<Call(1, 0, [ArgsPlain EXCEPT !.phone = m_phone])>>

\* database.py:98-112
MaskPhone ==
    /\ m_out = {}
    /\ m_out' = {mask_phone(calls[1].phone)}
    /\ UNCHANGED <<configVars, sessionVars, storeVars, dbCallVars, extractVars,
                   m_phone>>

MaskNext == MaskPhone
SpecMask == MaskInit /\ [][MaskNext]_vars

Stars(n) == [i \in 1..n |-> "*"]

\* C10 as stated: an absent phone gives "N/A"; every phone string of length
\* at most 4, the empty string included, comes back unchanged; a longer one
\* gives its first 4 characters and one star per remaining character; the
\* output is as long as the input for every phone string; the stored phone
\* is not changed.
C10_MaskKeepsLength ==
    /\ calls[1].phone = m_phone
    /\ \A out \in m_out :
          /\ m_phone = {} => out = S_NA
          /\ \A p \in m_phone :
                /\ Len(out) = Len(p)
                /\ Len(p) <= 4 => out = p
                /\ Len(p) > 4 => out = SubSeq(p, 1, 4) \o Stars(Len(p) - 4)

\* C10 amended: an absent or empty phone gives "N/A"; every non-empty phone
\* string of length at most 4 comes back unchanged; a longer one gives its
\* first 4 characters and one star per remaining character; the output is
\* as long as the input for every non-empty phone string; the stored phone
\* is not changed.
C10_MaskNonEmptyKeepsLength ==
    /\ calls[1].phone = m_phone
    /\ \A out \in m_out :
          /\ (m_phone = {} \/ m_phone = {S_Empty}) => out = S_NA
          /\ \A p \in m_phone :
                p # S_Empty =>
                    /\ Len(out) = Len(p)
                    /\ Len(p) <= 4 => out = p
                    /\ Len(p) > 4 => out = SubSeq(p, 1, 4) \o Stars(Len(p) - 4)

\* mask_phone has masked a phone of more than four characters.
C10_Witness ==
    /\ \E p \in m_phone : Len(p) > 4
    /\ \E out \in m_out : out[5] = "*"

====
